---------------------------- MODULE Spec2Model ----------------------------
(***************************************************************************)
(* Transaction query engine of the explorer API (business-logic/archive/   *)
(* tx-query.js, routes api/routes/tx-routes.js).                           *)
(*                                                                         *)
(* One behaviour is one HTTP request: either a list query                  *)
(*   new TxQuery(network, path, query).toArray()                           *)
(* or a single-record lookup                                               *)
(*   TxQuery.fetchTx(network, id).                                         *)
(* Every step of the filter pipeline is an action; a step that awaits      *)
(* concurrent lookups is split at its awaits, one action per completion.   *)
(*                                                                         *)
(* Numbers.  The code composes transaction identifiers as                  *)
(*   (ledgerSequence << 32) | orderWithinLedger                            *)
(* in BigInt arithmetic and wraps sequences with ">>> 0" (ToUint32).  The  *)
(* model keeps this layout with halves of HalfBits bits instead of 32, so  *)
(* that every identifier stays inside the integers of the model checker;   *)
(* the wrap-around ">>> 0" is modelled as "% 2^HalfBits".                  *)
(*                                                                         *)
(* Strings.  A string the code parses (BigInt(..), parseInt(.., 10)) or    *)
(* looks up by its spelling is held as the tuple of its characters; the    *)
(* other strings are TLA+ strings.                                         *)
(***************************************************************************)
EXTENDS Integers, Sequences, FiniteSets, TLC

VARIABLES
    op,           \* "list" (route tx) or "tx" (route tx/:id)
    pc,           \* position of the request in toArray/fetchData or fetchTx
    order,        \* this.order; "" before the constructor has set it
    cursor,       \* this.cursor; the empty text stands for undefined (both are falsy)
    limit,        \* this.limit, already normalized
    params,       \* this.params: a function from the supplied names to values
    constraints,  \* this.constraints (IdConstraints)
    isUnfeasible, \* this.isUnfeasible
    filter,       \* the filters aggregator of fetchData
    roleIdx,      \* loop index of addAccountFilter / addAssetFilter
    pending,      \* timestamp resolutions started and not yet settled
    tsSeq,        \* sequences the timestamp resolver has returned so far
    search,       \* the request handed to elastic.search, and its hits
    fusion,       \* state of Promise.all([fetchArchiveTransactions, fetchLedgersInfo])
    calls,        \* every external lookup issued so far, in order
    outcome,      \* what the request resolved or rejected with
    txArgs        \* what the route handler is given: the network and, for
                  \* tx/:id, the id; for tx, the order of the query

vars == <<op, pc, order, cursor, limit, params, constraints, isUnfeasible,
          filter, roleIdx, pending, tsSeq, search, fusion, calls, outcome,
          txArgs>>

----------------------------------------------------------------------------
(* Bounds of the model *)

\* Width of each half of a transaction identifier (32 in the code).
HalfBits == 3

\* At most this many optional query parameters are supplied in one request.
MaxSupplied == 2

----------------------------------------------------------------------------
(* Program constants *)

MaxTypeFilters == 30
MaxConditions == 10
MaxOpType == 23
MaxIdLength == 64

RECURSIVE Pow2(_)
Pow2(n) == IF n = 0 THEN 1 ELSE 2 * Pow2(n - 1)

Half == Pow2(HalfBits)

\* x >>> 0 for a non-negative x
ToUint(x) == x % Half

\* BigInt(x) << 32n
ShiftLeft(x) == x * Half

\* Number(id >> 32n), and Long.high of an identifier
High(id) == id \div Half

Max(a, b) == IF a >= b THEN a ELSE b

Min(a, b) == IF a <= b THEN a ELSE b

----------------------------------------------------------------------------
(* Strings and the parsers of the language *)

\* A string the code parses or looks up by its spelling is a text: the tuple
\* of its characters, Array.from(string).  A character is a one-character
\* string; a character that cannot be written in a string of this language
\* is named by its code point ("U+000B").  Str is the string of a text.
RECURSIVE Str(_)
Str(cs) == IF cs = <<>> THEN "" ELSE Head(cs) \o Str(Tail(cs))

\* WhiteSpace and LineTerminator of the language: what parseInt skips and
\* BigInt trims.
WhiteSpace ==
    {" ", "\t", "\n", "\f", "\r", "U+000B", "U+00A0", "U+FEFF", "U+1680",
     "U+2000", "U+2001", "U+2002", "U+2003", "U+2004", "U+2005", "U+2006",
     "U+2007", "U+2008", "U+2009", "U+200A", "U+2028", "U+2029", "U+202F",
     "U+205F", "U+3000"}

Digits == <<"0", "1", "2", "3", "4", "5", "6", "7", "8", "9">>

IsDigit(c) == \E i \in 1..10 : Digits[i] = c

DigitValue(c) == (CHOOSE i \in 1..10 : Digits[i] = c) - 1

LowerHex == <<"a", "b", "c", "d", "e", "f">>

UpperHex == <<"A", "B", "C", "D", "E", "F">>

\* The value of a character as a digit, or -1 when it is no digit of any
\* radix up to 16.
HexValue(c) ==
    IF IsDigit(c) THEN DigitValue(c)
    ELSE IF \E i \in 1..6 : LowerHex[i] = c THEN 9 + (CHOOSE i \in 1..6 : LowerHex[i] = c)
    ELSE IF \E i \in 1..6 : UpperHex[i] = c THEN 9 + (CHOOSE i \in 1..6 : UpperHex[i] = c)
    ELSE 0 - 1

IsDigitOf(c, radix) == HexValue(c) >= 0 /\ HexValue(c) < radix

RECURSIVE DropSpaces(_)
DropSpaces(cs) ==
    IF cs # <<>> /\ Head(cs) \in WhiteSpace THEN DropSpaces(Tail(cs)) ELSE cs

RECURSIVE DropTrailingSpaces(_)
DropTrailingSpaces(cs) ==
    IF cs # <<>> /\ cs[Len(cs)] \in WhiteSpace
    THEN DropTrailingSpaces(SubSeq(cs, 1, Len(cs) - 1))
    ELSE cs

\* Length of the longest prefix of cs made of decimal digits.
RECURSIVE DigitPrefix(_)
DigitPrefix(cs) ==
    IF cs # <<>> /\ IsDigit(Head(cs)) THEN 1 + DigitPrefix(Tail(cs)) ELSE 0

\* Value of a tuple of decimal digits.
RECURSIVE DecimalValue(_)
DecimalValue(cs) ==
    IF cs = <<>> THEN 0
    ELSE 10 * DecimalValue(SubSeq(cs, 1, Len(cs) - 1)) + DigitValue(cs[Len(cs)])

\* Value of a tuple of digits of a radix.
RECURSIVE RadixValue(_, _)
RadixValue(cs, radix) ==
    IF cs = <<>> THEN 0
    ELSE radix * RadixValue(SubSeq(cs, 1, Len(cs) - 1), radix) + HexValue(cs[Len(cs)])

HasSign(cs) == cs # <<>> /\ Head(cs) \in {"-", "+"}

\* The radix of a literal with a prefix (0x, 0o, 0b in either case), or 0
\* when the text has no prefix.
PrefixRadix(cs) ==
    IF Len(cs) >= 2 /\ cs[1] = "0"
    THEN CASE cs[2] \in {"x", "X"} -> 16
           [] cs[2] \in {"o", "O"} -> 8
           [] cs[2] \in {"b", "B"} -> 2
           [] OTHER -> 0
    ELSE 0

\* parseInt(s, 10): leading white space is skipped, then an optional sign and
\* the longest run of decimal digits; NaN when there is no digit.
ParseInt(s) ==
    LET t    == DropSpaces(s)
        body == IF HasSign(t) THEN Tail(t) ELSE t
        n    == DigitPrefix(body)
        v    == DecimalValue(SubSeq(body, 1, n))
    IN  IF n = 0 THEN [nan |-> TRUE, val |-> 0]
        ELSE [nan |-> FALSE, val |-> IF HasSign(t) /\ Head(t) = "-" THEN 0 - v ELSE v]

\* BigInt(s): white space is trimmed; the empty string is 0n; a prefix 0x, 0o
\* or 0b followed by digits of its radix only, or an optional sign followed
\* by decimal digits only, is that integer; anything else is a SyntaxError
\* (ok = FALSE).
ToBigInt(s) ==
    LET t      == DropTrailingSpaces(DropSpaces(s))
        radix  == PrefixRadix(t)
        digits == SubSeq(t, 3, Len(t))
        body   == IF HasSign(t) THEN Tail(t) ELSE t
        v      == DecimalValue(body)
    IN  IF t = <<>> THEN [ok |-> TRUE, val |-> 0]
        ELSE IF radix # 0
        THEN IF digits # <<>> /\ \A i \in 1..Len(digits) : IsDigitOf(digits[i], radix)
             THEN [ok |-> TRUE, val |-> RadixValue(digits, radix)]
             ELSE [ok |-> FALSE, val |-> 0]
        ELSE IF body = <<>> \/ DigitPrefix(body) # Len(body) THEN [ok |-> FALSE, val |-> 0]
        ELSE [ok |-> TRUE, val |-> IF Head(t) = "-" THEN 0 - v ELSE v]

----------------------------------------------------------------------------
(* The external collaborators: validators, resolvers and stores.  They are *)
(* fixed data of the environment; whether a lookup succeeds or fails is    *)
(* chosen when it completes.                                               *)

\* config.networks: the networks validateNetwork accepts.
KnownNetworks == {"public", "testnet"}

validateNetwork(network) == network \in KnownNetworks

\* StrKey.isValidEd25519PublicKey
isValidEd25519PublicKey(address) == address \in {"GA", "GB"}

\* new Asset(a).toFQAN(): the canonical name, "" when the constructor throws.
toFQAN(a) ==
    CASE a = "XLM"    -> "XLM"
      [] a = "USD-GX" -> "USD-GX-1"
      [] a = "EUR-GX" -> "EUR-GX-1"
      [] OTHER        -> ""

\* validateOfferId(offer, 'offer').toString(): "" when the validator throws.
validateOfferId(offer) ==
    LET n == ToBigInt(offer)
    IN  IF offer # <<>> /\ n.ok /\ n.val >= 0 THEN ToString(n.val) ELSE ""

\* validatePoolId
validatePoolId(pool) == pool \in {"P1", "P2"}

\* The collections accounts, assets, liquidity_pools and the memo index: the
\* _id of every value they hold.
StoreIds(collection) ==
    CASE collection = "accounts"        -> ("GA" :> 1)
      [] collection = "assets"          -> ("XLM" :> 0) @@ ("USD-GX-1" :> 2)
      [] collection = "liquidity_pools" -> ("P1" :> 5)
      [] collection = "memos"           -> ("hello" :> 9)

\* collection.find({<key>: {$in: values}}, {projection: {_id: 1}}).toArray()
\* and fetchMemoIds: the _id of each value the collection holds.
RECURSIVE find(_, _)
find(collection, values) ==
    IF values = <<>> THEN <<>>
    ELSE LET held == StoreIds(collection)
             rest == find(collection, Tail(values))
         IN  IF Head(values) \in DOMAIN held
             THEN <<held[Head(values)]>> \o rest
             ELSE rest

\* resolveSequenceFromTimestamp: the ledger that was open at a timestamp.
resolveSequenceFromTimestamp(ts) ==
    CASE ts = 100 -> 1
      [] ts = 200 -> 2
      [] ts = 900 -> Half - 1
      [] OTHER    -> 0

\* The archive: the identifier of every transaction it holds.
ArchiveIds == {ShiftLeft(1), ShiftLeft(1) + 1, ShiftLeft(2) + 3}

\* The hash under which the archive holds a transaction.
HashOf(id) == "h" \o ToString(id)

\* An archive record.  The document is keyed by the transaction identifier.
ArchiveRecord(id) ==
    [_id |-> id, id |-> id, hash |-> HashOf(id),
     body |-> "b" \o ToString(id), meta |-> "m" \o ToString(id),
     result |-> "r" \o ToString(id)]

\* A ledger-metadata record, keyed by ledger sequence.
LedgerRecord(sequence) == [_id |-> sequence, ts |-> 1000 + sequence]

\* The ledgers the ledger-metadata store holds: those of the archive.
LedgerSequences == {High(id) : id \in ArchiveIds}

----------------------------------------------------------------------------
(* utils/id-constraints: the range constraint resolver *)

NoConstraints == [hasBottom |-> FALSE, bottom |-> 0, hasTop |-> FALSE, top |-> 0]

\* bottom := max(bottom ?? -infinity, value)
addBottomConstraint(c, value) ==
    [c EXCEPT !.hasBottom = TRUE,
              !.bottom = IF c.hasBottom THEN Max(c.bottom, value) ELSE value]

\* top := min(top ?? +infinity, value)
addTopConstraint(c, value) ==
    [c EXCEPT !.hasTop = TRUE,
              !.top = IF c.hasTop THEN Min(c.top, value) ELSE value]

constraintsIsEmpty(c) == ~c.hasBottom /\ ~c.hasTop

constraintsIsUnfeasible(c) == c.hasBottom /\ c.hasTop /\ c.bottom > c.top

\* resolve(): {gte: bottom, lte: top}, each key only when its bound is set
constraintsResolve(c) ==
    [hasGte |-> c.hasBottom, gte |-> IF c.hasBottom THEN c.bottom ELSE 0,
     hasLte |-> c.hasTop, lte |-> IF c.hasTop THEN c.top ELSE 0]

NoRange == [hasGte |-> FALSE, gte |-> 0, hasLte |-> FALSE, lte |-> 0]

----------------------------------------------------------------------------
(* Filter predicates *)

\* {terms: {[field]: values}}
Terms(field, values) ==
    [kind |-> "terms", field |-> field, values |-> values, range |-> NoRange]

\* {range: {id: range}}
Range(range) ==
    [kind |-> "range", field |-> "id", values |-> <<>>, range |-> range]

----------------------------------------------------------------------------
(* The type taxonomy *)

\* The own properties of typeMapping; a single code is a one-element list.
typeMapping ==
    [payments |-> <<0, 1, 2, 8, 9, 13, 14, 15, 19, 20>>,
     trustlines |-> <<6, 7, 21>>,
     dex |-> <<3, 4, 12, 22, 23>>,
     settings |-> <<0, 5, 6, 7, 8, 9, 10, 11, 16, 17, 18, 21>>,
     createAccount |-> <<0>>,
     payment |-> <<1>>,
     pathPaymentStrictReceive |-> <<2>>,
     pathPaymentStrictSend |-> <<13>>,
     createPassiveSellOffer |-> <<4>>,
     manageSellOffer |-> <<3>>,
     manageBuyOffer |-> <<12>>,
     setOptions |-> <<5>>,
     changeTrust |-> <<6>>,
     allowTrust |-> <<7>>,
     accountMerge |-> <<8>>,
     inflation |-> <<9>>,
     manageData |-> <<10>>,
     bumpSequence |-> <<11>>,
     createClaimableBalance |-> <<14>>,
     claimClaimableBalance |-> <<15>>,
     beginSponsoringFutureReserves |-> <<16>>,
     endSponsoringFutureReserves |-> <<17>>,
     revokeSponsorship |-> <<18>>,
     clawback |-> <<19>>,
     clawbackClaimableBalance |-> <<20>>,
     setTrustLineFlags |-> <<21>>,
     liquidityPoolDeposit |-> <<22>>,
     liquidityPoolWithdraw |-> <<23>>]

\* typeMapping is an object literal: a lookup that misses its own properties
\* finds the members every object inherits from Object.prototype.
ObjectPrototypeNames ==
    <<"constructor", "__defineGetter__", "__defineSetter__", "hasOwnProperty",
      "__lookupGetter__", "__lookupSetter__", "isPrototypeOf",
      "propertyIsEnumerable", "toString", "valueOf", "__proto__", "toLocaleString">>

ObjectPrototypeKeys == {ObjectPrototypeNames[i] : i \in 1..Len(ObjectPrototypeNames)}

\* What searchTypes holds for an inherited member: a function or an object,
\* not a number, and a different one for each name (a negative number here).
InheritedMember(name) ==
    0 - (CHOOSE i \in 1..Len(ObjectPrototypeNames) : ObjectPrototypeNames[i] = name)

\* typeMapping[value] for the text value: <<>> stands for undefined.
typeMappingLookup(value) ==
    LET name == Str(value)
    IN  IF name \in DOMAIN typeMapping THEN typeMapping[name]
        ELSE IF name \in ObjectPrototypeKeys THEN <<InheritedMember(name)>>
        ELSE <<>>

\* searchTypes.add(code) for each code of a list, in order (a Set keeps the
\* insertion order and no duplicates).
RECURSIVE addAll(_, _)
addAll(searchTypes, codes) ==
    IF codes = <<>> THEN searchTypes
    ELSE addAll(IF \E i \in 1..Len(searchTypes) : searchTypes[i] = Head(codes)
                THEN searchTypes
                ELSE Append(searchTypes, Head(codes)),
                Tail(codes))

\* The loop of addTypesFilter over type[i..]: the set built, or the failure.
RECURSIVE collectTypes(_, _)
collectTypes(type, searchTypes) ==
    IF type = <<>> THEN [ok |-> TRUE, searchTypes |-> searchTypes]
    ELSE LET value  == Head(type)
             mapped == typeMappingLookup(value)
             parsed == ParseInt(value)
         IN  IF mapped # <<>>
             THEN collectTypes(Tail(type), addAll(searchTypes, mapped))
             ELSE IF parsed.nan \/ ~(parsed.val >= 0 /\ parsed.val <= MaxOpType)
             THEN [ok |-> FALSE, searchTypes |-> searchTypes]
             ELSE collectTypes(Tail(type), addAll(searchTypes, <<parsed.val>>))

----------------------------------------------------------------------------
(* The requests *)

\* A list of MaxConditions + 1 values
TooMany(value) == [i \in 1..(MaxConditions + 1) |-> value]

AccountRoles == <<"account", "source", "destination">>

AccountKeys == <<"accounts", "source", "destination">>

AssetRoles == <<"asset", "src_asset", "dest_asset">>

AssetKeys == <<"assets", "srcAsset", "desAsset">>

OptionalNames ==
    {"cursor", "from", "to", "type", "offer", "pool", "memo"}
        \cup {AccountRoles[i] : i \in 1..3} \cup {AssetRoles[i] : i \in 1..3}

\* The texts "payments", "payment" and "constructor"
TypePayments == <<"p", "a", "y", "m", "e", "n", "t", "s">>

TypePayment == <<"p", "a", "y", "m", "e", "n", "t">>

TypeConstructor == <<"c", "o", "n", "s", "t", "r", "u", "c", "t", "o", "r">>

\* The values a request may give each optional parameter.  A parameter given
\* once, ?p=v, is the list <<v>>: enforceArray makes it one.
ParamValues(name) ==
    CASE name = "cursor" ->
            {<<"a", "b", "c">>, <<"1", ".", "5">>, <<"-", "5">>, <<"0">>, <<"2", "0">>,
             <<"1", "0", "0", "0">>, <<"0", "x", "1", "0">>}
      [] name \in {"from", "to"} ->
            {<<"1", "0", "0">>, <<"2", "0", "0">>, <<"9", "0", "0">>}
      [] name = "type" ->
            {<<TypePayments>>, <<TypePayment, <<"5">>>>, <<<<"2", "4">>>>,
             <<TypeConstructor>>}
      [] name \in {"account", "source", "destination"} ->
            {<<>>, <<"GA", "GB">>, <<"GB">>, <<"bad">>, TooMany("GA")}
      [] name \in {"asset", "src_asset", "dest_asset"} ->
            {<<>>, <<"USD-GX", "EUR-GX">>, <<"EUR-GX">>, <<"bad">>, TooMany("XLM")}
      [] name = "offer" -> {<<>>, <<<<"1", "2">>>>, <<<<"x">>>>, TooMany(<<"1", "2">>)}
      [] name = "pool" -> {<<>>, <<"P1", "P2">>, <<"P2">>, <<"zz">>, TooMany("P1")}
      [] name = "memo" -> {<<>>, <<"hello", "nope">>, <<"nope">>, TooMany("hello")}

\* Every query object that supplies exactly the names of S.
RECURSIVE QueriesOver(_)
QueriesOver(S) ==
    IF S = {} THEN {<<>>}
    ELSE LET name == CHOOSE n \in S : TRUE
         IN  {(name :> v) @@ q : v \in ParamValues(name), q \in QueriesOver(S \ {name})}

\* The parameters that act together on one part of the request: the three
\* contributions to the identifier range, the three roles of the account step
\* and of the asset step, and two account roles with a later step.
CombinedNames ==
    {{"cursor", "from", "to"}, {"account", "source", "destination"},
     {"asset", "src_asset", "dest_asset"}, {"account", "source", "offer"}}

\* The query objects: any MaxSupplied optional parameters at most, or the
\* parameters of one of the combinations.
Queries ==
    UNION {QueriesOver(S) :
              S \in {T \in SUBSET OptionalNames : Cardinality(T) <= MaxSupplied}
                        \cup CombinedNames}

\* {order = 'desc', cursor, limit, ...extraParams}: the rest of the query
extraParams(query) == [name \in DOMAIN query \ {"cursor"} |-> query[name]]

Limits == {1, 2}

Str64 == "0123456789abcdef0123456789abcdef0123456789abcdef0123456789abcdef"

Str65 == "0123456789abcdef0123456789abcdef0123456789abcdef0123456789abcdef0"

\* The identifier-or-hash strings of the single-record requests.
TxIds == {ToString(ShiftLeft(1)), HashOf(ShiftLeft(1) + 1), ToString(ShiftLeft(2) + 3),
          "99", "h99", "", Str64, Str65}

Pending == [kind |-> "pending", field |-> "", records |-> <<>>]

NoSearch == [invoked |-> FALSE, filter |-> <<>>, size |-> 0, trackTotalHits |-> 0,
             sortOrder |-> "", hits |-> <<>>]

NoFusion == [archive |-> "idle", ledgers |-> "idle", ledgerIds |-> <<>>,
             transactions |-> <<>>, ledgerMap |-> <<>>]

\* The orders a query may carry.
OrderValues == {"asc", "desc", "sideways", "ASC", ""}

\* The order of the queries: absent (hasOrder = FALSE), or one of OrderValues.
QueryOrders ==
    {[hasOrder |-> FALSE, order |-> ""]} \cup [hasOrder : {TRUE}, order : OrderValues]

\* The route tx has been called with a network and a query, and
\* new TxQuery(network, path, query) is about to run.
InitList ==
    /\ op = "list"
    /\ pc = "new"
    /\ order = ""
    /\ limit \in Limits
    /\ \E query \in Queries :
          /\ cursor = (IF "cursor" \in DOMAIN query THEN query["cursor"] ELSE <<>>)
          /\ params = extraParams(query)
    /\ \E network \in {"public", "mainnet"} : \E o \in QueryOrders :
          txArgs = [network |-> network, id |-> "", hasOrder |-> o.hasOrder,
                    order |-> o.order]

\* TxQuery.fetchTx(network, id) about to run
InitTx ==
    /\ op = "tx"
    /\ pc = "fetchTx"
    /\ order = "desc"
    /\ limit = 1
    /\ cursor = <<>>
    /\ params = <<>>
    /\ txArgs \in [network : {"public", "testnet", "mainnet"}, id : TxIds,
                    hasOrder : {FALSE}, order : {""}]

InitCommon ==
    /\ constraints = NoConstraints
    /\ isUnfeasible = FALSE
    /\ filter = <<>>
    /\ roleIdx = 1
    /\ pending = {}
    /\ tsSeq = <<>>
    /\ search = NoSearch
    /\ fusion = NoFusion
    /\ calls = <<>>
    /\ outcome = Pending

Init == (InitList \/ InitTx) /\ InitCommon

----------------------------------------------------------------------------
(* How a request ends *)

\* preparePagedData(basePath, {...}, records): the paged envelope
Paged(records) == [kind |-> "paged", field |-> "", records |-> records]

\* errors.validationError(field, ..)
ValidationError(field) == [kind |-> "validation", field |-> field, records |-> <<>>]

\* errors.notFound(..)
NotFound == [kind |-> "notFound", field |-> "", records |-> <<>>]

\* A failure of a resolver, of the search index or of a store, or a run-time
\* error of the language, named by where it comes from.
Failure(source) == [kind |-> "error", field |-> source, records |-> <<>>]

\* The request rejects with an error.
Throw(error) == pc' = "done" /\ outcome' = error

\* Mutation of AfterStep: the flag is not looked at between the steps.
AfterStepNoReturn(unfeasible, next) == pc' = next /\ UNCHANGED outcome

\* fetchData, after a step: "if (this.isUnfeasible) return []", and toArray
\* wraps the empty list; otherwise the next step runs.
AfterStep(unfeasible, next) ==
    IF unfeasible
    THEN pc' = "done" /\ outcome' = Paged(<<>>)
    ELSE pc' = next /\ UNCHANGED outcome

Has(name) == name \in DOMAIN params

----------------------------------------------------------------------------
(* toArray and the filter pipeline of fetchData *)

\* The constructor: validateNetwork(network), the default 'desc' of an
\* absent order, and the check of the order.
NewTxQuery ==
    /\ op = "list" /\ pc = "new"
    /\ IF ~validateNetwork(txArgs.network)
       THEN UNCHANGED order /\ Throw(ValidationError("network"))
       ELSE LET given == IF txArgs.hasOrder THEN txArgs.order ELSE "desc"
            IN  IF given # "asc" /\ given # "desc"
                THEN UNCHANGED order /\ Throw(ValidationError("order"))
                ELSE order' = given /\ pc' = "toArray" /\ UNCHANGED outcome
    /\ UNCHANGED <<op, cursor, limit, params, constraints, isUnfeasible, filter,
                   roleIdx, pending, tsSeq, search, fusion, calls, txArgs>>

\* toArray, up to the call of fetchData
ToArray ==
    /\ op = "list" /\ pc = "toArray"
    /\ IF isUnfeasible \/ constraintsIsUnfeasible(constraints)
       THEN pc' = "done" /\ outcome' = Paged(<<>>)
       ELSE pc' = "cursor" /\ UNCHANGED outcome
    /\ UNCHANGED <<op, order, cursor, limit, params, constraints, isUnfeasible,
                   filter, roleIdx, pending, tsSeq, search, fusion, calls, txArgs>>

\* Mutation of cursorConstraint: the cursor itself is kept inside the range.
cursorConstraintInclusive(c, sortOrder, value) ==
    IF sortOrder = "asc"
    THEN addBottomConstraint(c, value)
    ELSE addTopConstraint(c, value)

\* The bound a cursor that parsed to a non-negative value contributes.
cursorConstraint(c, sortOrder, value) ==
    IF sortOrder = "asc"
    THEN addBottomConstraint(c, value + 1)
    ELSE addTopConstraint(c, value - 1)

\* Mutation of cursorFilter: a cursor that does not parse is ignored, and a
\* negative one is rejected.
cursorFilterLenient(c, sortOrder, cursorString) ==
    LET parsed == ToBigInt(cursorString)
    IN  IF cursorString = <<>> THEN [ok |-> TRUE, constraints |-> c]
        ELSE IF ~parsed.ok THEN [ok |-> TRUE, constraints |-> c]
        ELSE IF parsed.val < 0 THEN [ok |-> FALSE, constraints |-> c]
        ELSE [ok |-> TRUE, constraints |-> cursorConstraint(c, sortOrder, parsed.val)]

\* What addCursorFilter does with a cursor: the failure (ok = FALSE), or the
\* constraints after it.
cursorFilter(c, sortOrder, cursorString) ==
    LET parsed == ToBigInt(cursorString)
    IN  IF cursorString = <<>> THEN [ok |-> TRUE, constraints |-> c]
        ELSE IF ~parsed.ok THEN [ok |-> FALSE, constraints |-> c]
        ELSE IF parsed.val < 0 THEN [ok |-> TRUE, constraints |-> c]
        ELSE [ok |-> TRUE, constraints |-> cursorConstraint(c, sortOrder, parsed.val)]

AddCursorFilter ==
    /\ op = "list" /\ pc = "cursor"
    /\ LET r == cursorFilter(constraints, order, cursor)
       IN  IF r.ok
           THEN constraints' = r.constraints /\ AfterStep(isUnfeasible, "ts")
           ELSE UNCHANGED constraints /\ Throw(ValidationError("cursor"))
    /\ UNCHANGED <<op, order, cursor, limit, params, isUnfeasible, filter,
                   roleIdx, pending, tsSeq, search, fusion, calls, txArgs>>

\* Mutation of toConstraint: the bound lies one ledger further.
toConstraintTwoAhead(sequence) == ShiftLeft(ToUint(sequence + 2))

\* BigInt((sequence + 1) >>> 0) << 32n
toConstraint(sequence) == ShiftLeft(ToUint(sequence + 1))

\* BigInt(sequence >>> 0) << 32n
fromConstraint(sequence) == ShiftLeft(ToUint(sequence))

\* addTsFilter, up to "await Promise.all(promises)": the resolution of `to` is
\* started first, then that of `from`.
AddTsFilter ==
    /\ op = "list" /\ pc = "ts"
    /\ pending' = {"to", "from"} \cap DOMAIN params
    /\ calls' = calls \o (IF Has("to") THEN <<"timestamp:to">> ELSE <<>>)
                      \o (IF Has("from") THEN <<"timestamp:from">> ELSE <<>>)
    /\ IF pending' = {}
       THEN AfterStep(isUnfeasible, "idRange")
       ELSE pc' = "tsWait" /\ UNCHANGED outcome
    /\ UNCHANGED <<op, order, cursor, limit, params, constraints, isUnfeasible,
                   filter, roleIdx, tsSeq, search, fusion, txArgs>>

\* Mutation of tsConstraint: both callbacks add a top bound.
tsConstraintBothTop(c, which, sequence) ==
    IF which = "to"
    THEN addTopConstraint(c, toConstraint(sequence))
    ELSE addTopConstraint(c, fromConstraint(sequence))

\* Mutation of tsConstraint: each callback starts from constraints without
\* bounds, so the callback that runs last wins.
tsConstraintFresh(c, which, sequence) ==
    IF which = "to"
    THEN addTopConstraint(NoConstraints, toConstraint(sequence))
    ELSE addBottomConstraint(NoConstraints, fromConstraint(sequence))

\* The constraints after the .then callback of one resolution has run.
tsConstraint(c, which, sequence) ==
    IF which = "to"
    THEN addTopConstraint(c, toConstraint(sequence))
    ELSE addBottomConstraint(c, fromConstraint(sequence))

\* One timestamp resolution fulfils and its .then callback runs.
TsResolved(which) ==
    /\ which \in pending
    /\ LET sequence == resolveSequenceFromTimestamp(ParseInt(params[which]).val)
       IN  /\ constraints' = tsConstraint(constraints, which, sequence)
           /\ tsSeq' = (which :> sequence) @@ tsSeq
    /\ pending' = pending \ {which}
    /\ UNCHANGED <<op, pc, order, cursor, limit, params, isUnfeasible, filter,
                   roleIdx, search, fusion, calls, outcome, txArgs>>

\* One timestamp resolution rejects: Promise.all rejects at once and the
\* request fails; the other resolution, if any, stays in flight.
TsFailed(which) ==
    /\ which \in pending
    /\ pending' = pending \ {which}
    /\ IF pc = "tsWait"
       THEN Throw(Failure("timestamp"))
       ELSE UNCHANGED <<pc, outcome>>
    /\ UNCHANGED <<op, order, cursor, limit, params, constraints, isUnfeasible,
                   filter, roleIdx, tsSeq, search, fusion, calls, txArgs>>

\* Promise.all fulfils: every resolution has fulfilled.
AddTsFilterDone ==
    /\ op = "list" /\ pc = "tsWait" /\ pending = {}
    /\ AfterStep(isUnfeasible, "idRange")
    /\ UNCHANGED <<op, order, cursor, limit, params, constraints, isUnfeasible,
                   filter, roleIdx, pending, tsSeq, search, fusion, calls, txArgs>>

\* Mutation of AddIdRangeFilter: the constraints are not asked whether they
\* are unfeasible.
AddIdRangeFilterUnchecked ==
    /\ op = "list" /\ pc = "idRange"
    /\ IF constraintsIsEmpty(constraints)
       THEN UNCHANGED <<isUnfeasible, filter>> /\ AfterStep(isUnfeasible, "types")
       ELSE /\ filter' = Append(filter, Range(constraintsResolve(constraints)))
            /\ UNCHANGED isUnfeasible
            /\ AfterStep(isUnfeasible, "types")
    /\ UNCHANGED <<op, order, cursor, limit, params, constraints, roleIdx,
                   pending, tsSeq, search, fusion, calls, txArgs>>

\* addIdRangeFilter(filters)
AddIdRangeFilter ==
    /\ op = "list" /\ pc = "idRange"
    /\ IF constraintsIsEmpty(constraints)
       THEN UNCHANGED <<isUnfeasible, filter>> /\ AfterStep(isUnfeasible, "types")
       ELSE IF constraintsIsUnfeasible(constraints)
       THEN isUnfeasible' = TRUE /\ UNCHANGED filter /\ AfterStep(TRUE, "types")
       ELSE /\ filter' = Append(filter, Range(constraintsResolve(constraints)))
            /\ UNCHANGED isUnfeasible
            /\ AfterStep(isUnfeasible, "types")
    /\ UNCHANGED <<op, order, cursor, limit, params, constraints, roleIdx,
                   pending, tsSeq, search, fusion, calls, txArgs>>

\* What addTypesFilter does with the list type: the failure, or the filters
\* after it.
typesFilter(type, filters) ==
    IF Len(type) > MaxTypeFilters
    THEN [ok |-> FALSE, filters |-> filters]
    ELSE LET r == collectTypes(type, <<>>)
         IN  IF ~r.ok THEN [ok |-> FALSE, filters |-> filters]
             ELSE IF r.searchTypes # <<>>
             THEN [ok |-> TRUE, filters |-> Append(filters, Terms("type", r.searchTypes))]
             ELSE [ok |-> TRUE, filters |-> filters]

AddTypesFilter ==
    /\ op = "list" /\ pc = "types"
    /\ IF ~Has("type")
       THEN UNCHANGED filter /\ AfterStep(isUnfeasible, "account")
       ELSE LET r == typesFilter(params["type"], filter)
            IN  IF r.ok
                THEN filter' = r.filters /\ AfterStep(isUnfeasible, "account")
                ELSE UNCHANGED filter /\ Throw(ValidationError("type"))
    /\ UNCHANGED <<op, order, cursor, limit, params, constraints, isUnfeasible,
                   roleIdx, pending, tsSeq, search, fusion, calls, txArgs>>

\* The step a position of the request belongs to: the position at which the
\* loop of the step goes on after a lookup of one of its roles.
StepOf(position) ==
    CASE position \in {"account", "accountWait"} -> "account"
      [] position \in {"asset", "assetWait"} -> "asset"
      [] OTHER -> position

\* Mutation of NextRole: after the last role the next step runs whatever the
\* flag is.
NextRoleNoReturn(unfeasible, next) ==
    IF roleIdx < 3
    THEN roleIdx' = roleIdx + 1 /\ pc' = StepOf(pc) /\ UNCHANGED outcome
    ELSE roleIdx' = 1 /\ pc' = next /\ UNCHANGED outcome

\* Mutation of NextRole: a role without match ends the step ("return" in
\* place of "continue").
NextRoleReturn(unfeasible, next) ==
    IF roleIdx < 3 /\ ~unfeasible
    THEN roleIdx' = roleIdx + 1 /\ pc' = StepOf(pc) /\ UNCHANGED outcome
    ELSE roleIdx' = 1 /\ AfterStep(unfeasible, next)

\* "continue" in the loop over the three roles of a step, and the end of the
\* step after the last role.
NextRole(unfeasible, next) ==
    IF roleIdx < 3
    THEN roleIdx' = roleIdx + 1 /\ pc' = StepOf(pc) /\ UNCHANGED outcome
    ELSE roleIdx' = 1 /\ AfterStep(unfeasible, next)

\* Whether the loop skips the role: no value, or an empty list.
roleSkipped(param) == ~Has(param) \/ Len(params[param]) = 0

\* Mutation of accountsRejected: the number of values is not limited.
accountsRejectedNoLimit(addresses) ==
    \E i \in 1..Len(addresses) : ~isValidEd25519PublicKey(addresses[i])

\* Whether addAccountFilter rejects the values of a role.
accountsRejected(addresses) ==
    \/ Len(addresses) > MaxConditions
    \/ \E i \in 1..Len(addresses) : ~isValidEd25519PublicKey(addresses[i])

\* Mutation of roleMatched: no match leaves the flag as it is.
roleMatchedNoFlag(key, matched) ==
    IF Len(matched) = 0
    THEN [isUnfeasible |-> isUnfeasible, filter |-> filter]
    ELSE [isUnfeasible |-> isUnfeasible, filter |-> Append(filter, Terms(key, matched))]

\* The flag and the filters after a role's matches have come back.
roleMatched(key, matched) ==
    IF Len(matched) = 0
    THEN [isUnfeasible |-> TRUE, filter |-> filter]
    ELSE [isUnfeasible |-> isUnfeasible, filter |-> Append(filter, Terms(key, matched))]

\* One iteration of the loop of addAccountFilter, up to the await of the
\* lookup of the role.
AddAccountFilter ==
    /\ op = "list" /\ pc = "account"
    /\ LET param == AccountRoles[roleIdx]
       IN  IF roleSkipped(param)
           THEN UNCHANGED calls /\ NextRole(isUnfeasible, "asset")
           ELSE IF accountsRejected(params[param])
           THEN UNCHANGED <<calls, roleIdx>> /\ Throw(ValidationError(param))
           ELSE /\ calls' = Append(calls, "accounts:" \o param)
                /\ pc' = "accountWait"
                /\ UNCHANGED <<roleIdx, outcome>>
    /\ UNCHANGED <<op, order, cursor, limit, params, constraints, isUnfeasible,
                   filter, pending, tsSeq, search, fusion, txArgs>>

\* The lookup of the role answers: the rest of the iteration.
AccountsReturned ==
    /\ op = "list" /\ pc = "accountWait"
    /\ LET r == roleMatched(AccountKeys[roleIdx],
                            find("accounts", params[AccountRoles[roleIdx]]))
       IN  /\ isUnfeasible' = r.isUnfeasible
           /\ filter' = r.filter
           /\ NextRole(r.isUnfeasible, "asset")
    /\ UNCHANGED <<op, order, cursor, limit, params, constraints, pending,
                   tsSeq, search, fusion, calls, txArgs>>

\* The lookup of the role rejects.
AccountsFailed ==
    /\ op = "list" /\ pc = "accountWait"
    /\ Throw(Failure("accounts"))
    /\ UNCHANGED <<op, order, cursor, limit, params, constraints, isUnfeasible,
                   filter, roleIdx, pending, tsSeq, search, fusion, calls, txArgs>>

\* assets.map(a => new Asset(a).toFQAN())
assetNames(assets) == [i \in 1..Len(assets) |-> toFQAN(assets[i])]

\* Whether addAssetFilter rejects the values of a role.
assetsRejected(assets) ==
    \/ Len(assets) > MaxConditions
    \/ \E i \in 1..Len(assets) : toFQAN(assets[i]) = ""

\* One iteration of the loop of addAssetFilter, up to the await of the lookup
\* of the role.
AddAssetFilter ==
    /\ op = "list" /\ pc = "asset"
    /\ LET param == AssetRoles[roleIdx]
       IN  IF roleSkipped(param)
           THEN UNCHANGED calls /\ NextRole(isUnfeasible, "offer")
           ELSE IF assetsRejected(params[param])
           THEN UNCHANGED <<calls, roleIdx>> /\ Throw(ValidationError(param))
           ELSE /\ calls' = Append(calls, "assets:" \o param)
                /\ pc' = "assetWait"
                /\ UNCHANGED <<roleIdx, outcome>>
    /\ UNCHANGED <<op, order, cursor, limit, params, constraints, isUnfeasible,
                   filter, pending, tsSeq, search, fusion, txArgs>>

\* The lookup of the role answers: the rest of the iteration.
AssetsReturned ==
    /\ op = "list" /\ pc = "assetWait"
    /\ LET r == roleMatched(AssetKeys[roleIdx],
                            find("assets", assetNames(params[AssetRoles[roleIdx]])))
       IN  /\ isUnfeasible' = r.isUnfeasible
           /\ filter' = r.filter
           /\ NextRole(r.isUnfeasible, "offer")
    /\ UNCHANGED <<op, order, cursor, limit, params, constraints, pending,
                   tsSeq, search, fusion, calls, txArgs>>

\* The lookup of the role rejects.
AssetsFailed ==
    /\ op = "list" /\ pc = "assetWait"
    /\ Throw(Failure("assets"))
    /\ UNCHANGED <<op, order, cursor, limit, params, constraints, isUnfeasible,
                   filter, roleIdx, pending, tsSeq, search, fusion, calls, txArgs>>

\* offers.map(offer => validateOfferId(offer, 'offer').toString())
offerIds(offers) == [i \in 1..Len(offers) |-> validateOfferId(offers[i])]

\* Whether addOfferFilter rejects the offers.
offersRejected(offers) ==
    \/ Len(offers) > MaxConditions
    \/ \E i \in 1..Len(offers) : validateOfferId(offers[i]) = ""

AddOfferFilter ==
    /\ op = "list" /\ pc = "offer"
    /\ IF ~Has("offer")
       THEN UNCHANGED filter /\ AfterStep(isUnfeasible, "pool")
       ELSE IF offersRejected(params["offer"])
       THEN UNCHANGED filter /\ Throw(ValidationError("offer"))
       ELSE IF Len(params["offer"]) = 0
       THEN UNCHANGED filter /\ AfterStep(isUnfeasible, "pool")
       ELSE /\ filter' = Append(filter, Terms("offer", offerIds(params["offer"])))
            /\ AfterStep(isUnfeasible, "pool")
    /\ UNCHANGED <<op, order, cursor, limit, params, constraints, isUnfeasible,
                   roleIdx, pending, tsSeq, search, fusion, calls, txArgs>>

\* Whether addPoolFilter rejects the pools.
poolsRejected(pools) ==
    \/ Len(pools) > MaxConditions
    \/ \E i \in 1..Len(pools) : ~validatePoolId(pools[i])

\* addPoolFilter, up to the await of the lookup.
AddPoolFilter ==
    /\ op = "list" /\ pc = "pool"
    /\ IF ~Has("pool")
       THEN UNCHANGED calls /\ AfterStep(isUnfeasible, "memo")
       ELSE IF poolsRejected(params["pool"])
       THEN UNCHANGED calls /\ Throw(ValidationError("pool"))
       ELSE /\ calls' = Append(calls, "liquidity_pools")
            /\ pc' = "poolWait" /\ UNCHANGED outcome
    /\ UNCHANGED <<op, order, cursor, limit, params, constraints, isUnfeasible,
                   filter, roleIdx, pending, tsSeq, search, fusion, txArgs>>

\* The lookup of the pools answers.
PoolsReturned ==
    /\ op = "list" /\ pc = "poolWait"
    /\ LET r == roleMatched("pool", find("liquidity_pools", params["pool"]))
       IN  /\ isUnfeasible' = r.isUnfeasible
           /\ filter' = r.filter
           /\ AfterStep(r.isUnfeasible, "memo")
    /\ UNCHANGED <<op, order, cursor, limit, params, constraints, roleIdx,
                   pending, tsSeq, search, fusion, calls, txArgs>>

\* The lookup of the pools rejects.
PoolsFailed ==
    /\ op = "list" /\ pc = "poolWait"
    /\ Throw(Failure("liquidity_pools"))
    /\ UNCHANGED <<op, order, cursor, limit, params, constraints, isUnfeasible,
                   filter, roleIdx, pending, tsSeq, search, fusion, calls, txArgs>>

\* addMemoFilter, up to the await of fetchMemoIds.
AddMemoFilter ==
    /\ op = "list" /\ pc = "memo"
    /\ IF roleSkipped("memo")
       THEN UNCHANGED calls /\ AfterStep(isUnfeasible, "search")
       ELSE IF Len(params["memo"]) > MaxConditions
       THEN UNCHANGED calls /\ Throw(ValidationError("memo"))
       ELSE /\ calls' = Append(calls, "memos")
            /\ pc' = "memoWait" /\ UNCHANGED outcome
    /\ UNCHANGED <<op, order, cursor, limit, params, constraints, isUnfeasible,
                   filter, roleIdx, pending, tsSeq, search, fusion, txArgs>>

\* fetchMemoIds answers.
MemosReturned ==
    /\ op = "list" /\ pc = "memoWait"
    /\ LET r == roleMatched("memo", find("memos", params["memo"]))
       IN  /\ isUnfeasible' = r.isUnfeasible
           /\ filter' = r.filter
           /\ AfterStep(r.isUnfeasible, "search")
    /\ UNCHANGED <<op, order, cursor, limit, params, constraints, roleIdx,
                   pending, tsSeq, search, fusion, calls, txArgs>>

\* fetchMemoIds rejects.
MemosFailed ==
    /\ op = "list" /\ pc = "memoWait"
    /\ Throw(Failure("memos"))
    /\ UNCHANGED <<op, order, cursor, limit, params, constraints, isUnfeasible,
                   filter, roleIdx, pending, tsSeq, search, fusion, calls, txArgs>>

----------------------------------------------------------------------------
(* The search request and the fusion of its hits *)

\* Mutation of buildQuery: the total-hit count is not capped at the page size.
buildQueryUncapped(filters) ==
    [invoked |-> TRUE, filter |-> filters, size |-> limit, trackTotalHits |-> 10000,
     sortOrder |-> order, hits |-> <<>>]

\* buildQuery(filter): the fields of the request that depend on the query
buildQuery(filters) ==
    [invoked |-> TRUE, filter |-> filters, size |-> limit, trackTotalHits |-> limit,
     sortOrder |-> order, hits |-> <<>>]

\* The elements of a set of identifiers, sorted in an order.
RECURSIVE SortedIds(_, _)
SortedIds(ids, sortOrder) ==
    IF ids = {} THEN <<>>
    ELSE LET first == IF sortOrder = "asc"
                      THEN CHOOSE x \in ids : \A y \in ids : x <= y
                      ELSE CHOOSE x \in ids : \A y \in ids : x >= y
         IN  <<first>> \o SortedIds(ids \ {first}, sortOrder)

\* What the index may answer: at most `size` of the identifiers it holds,
\* sorted by id in the requested order.
SearchHits(size, sortOrder) ==
    {SortedIds(ids, sortOrder) : ids \in {S \in SUBSET ArchiveIds : Cardinality(S) <= size}}

\* fetchArchiveTransactions(network, ids, order): the records of the
\* identifiers, in the order of the search.
fetchArchiveTransactions(ids, sortOrder) ==
    LET held == SelectSeq(ids, LAMBDA id : id \in ArchiveIds)
    IN  [i \in 1..Len(held) |-> ArchiveRecord(held[i])]

\* fetchLedgers(network, sequences): the records the store holds for them.
fetchLedgers(sequences) ==
    LET held == SelectSeq(sequences, LAMBDA sequence : sequence \in LedgerSequences)
    IN  [i \in 1..Len(held) |-> LedgerRecord(held[i])]

\* fetchLedgersInfo, first half: Array.from(ledgerIds), the distinct ledger
\* sequences of the identifiers in first-seen order.
ledgerIdsOf(txIds) == addAll(<<>>, [i \in 1..Len(txIds) |-> High(txIds[i])])

\* fetchLedgersInfo, second half: res[ledger._id] = ledger
ledgersById(ledgers) ==
    [sequence \in {ledgers[i]._id : i \in 1..Len(ledgers)} |->
        CHOOSE ledger \in {ledgers[i] : i \in 1..Len(ledgers)} : ledger._id = sequence]

\* What a field of the default parameter "ledger = {}" reads as.
Undefined == -2

\* Mutation of ledgerOf: the map is read under the whole identifier.
ledgerOfTxId(ledgerMap, tx) ==
    IF tx.id \in DOMAIN ledgerMap
    THEN ledgerMap[tx.id]
    ELSE [_id |-> Undefined, ts |-> Undefined]

\* ledgers[tx.id.high]
ledgerOf(ledgerMap, tx) ==
    IF High(tx.id) \in DOMAIN ledgerMap
    THEN ledgerMap[High(tx.id)]
    ELSE [_id |-> Undefined, ts |-> Undefined]

\* prepareResponseEntry(tx, ledger, addPagingToken); an entry without paging
\* token has hasPagingToken = FALSE.
prepareResponseEntry(tx, ledger, addPagingToken) ==
    LET id == ToString(tx.id)
    IN  [id |-> id, hash |-> tx.hash, ledger |-> ledger._id, ts |-> ledger.ts,
         body |-> tx.body, meta |-> tx.meta, result |-> tx.result,
         hasPagingToken |-> addPagingToken,
         paging_token |-> IF addPagingToken THEN id ELSE ""]

\* transactions.map(tx => TxQuery.prepareResponseEntry(tx, ledgers[tx.id.high], true))
mergeEntries(transactions, ledgerMap) ==
    [i \in 1..Len(transactions) |->
        prepareResponseEntry(transactions[i], ledgerOf(ledgerMap, transactions[i]), TRUE)]

\* fetchData builds the request and calls elastic.search.
Search ==
    /\ op = "list" /\ pc = "search"
    /\ search' = buildQuery(filter)
    /\ calls' = Append(calls, "search")
    /\ pc' = "searchWait"
    /\ UNCHANGED <<op, order, cursor, limit, params, constraints, isUnfeasible,
                   filter, roleIdx, pending, tsSeq, fusion, outcome, txArgs>>

SearchFailed ==
    /\ op = "list" /\ pc = "searchWait"
    /\ Throw(Failure("search"))
    /\ UNCHANGED <<op, order, cursor, limit, params, constraints, isUnfeasible,
                   filter, roleIdx, pending, tsSeq, search, fusion, calls, txArgs>>

\* The search answers: no hit ends the request; otherwise both fetches of
\* the fusion are started, the archive's first.
SearchReturned ==
    /\ op = "list" /\ pc = "searchWait"
    /\ \E hits \in SearchHits(search.size, search.sortOrder) :
          /\ search' = [search EXCEPT !.hits = hits]
          /\ IF Len(hits) = 0
             THEN /\ pc' = "done" /\ outcome' = Paged(<<>>)
                  /\ UNCHANGED <<fusion, calls>>
             ELSE /\ calls' = calls \o <<"archive", "ledgers">>
                  /\ fusion' = [NoFusion EXCEPT !.archive = "pending",
                                                !.ledgers = "pending",
                                                !.ledgerIds = ledgerIdsOf(hits)]
                  /\ pc' = "fusion" /\ UNCHANGED outcome
    /\ UNCHANGED <<op, order, cursor, limit, params, constraints, isUnfeasible,
                   filter, roleIdx, pending, tsSeq, txArgs>>

ArchiveReturned ==
    /\ op = "list" /\ fusion.archive = "pending"
    /\ fusion' = [fusion EXCEPT !.archive = "done",
                                !.transactions = fetchArchiveTransactions(search.hits, order)]
    /\ UNCHANGED <<op, pc, order, cursor, limit, params, constraints, isUnfeasible,
                   filter, roleIdx, pending, tsSeq, search, calls, outcome, txArgs>>

\* Mutation of ArchiveFailed: the rejection is held back until the other
\* fetch has settled.
ArchiveFailedHeldBack ==
    /\ op = "list" /\ fusion.archive = "pending"
    /\ fusion' = [fusion EXCEPT !.archive = "failed"]
    /\ IF pc = "fusion" /\ fusion.ledgers # "pending"
       THEN Throw(Failure("archive"))
       ELSE UNCHANGED <<pc, outcome>>
    /\ UNCHANGED <<op, order, cursor, limit, params, constraints, isUnfeasible,
                   filter, roleIdx, pending, tsSeq, search, calls, txArgs>>

\* A fetch of the fusion rejects: Promise.all rejects at once.
ArchiveFailed ==
    /\ op = "list" /\ fusion.archive = "pending"
    /\ fusion' = [fusion EXCEPT !.archive = "failed"]
    /\ IF pc = "fusion" THEN Throw(Failure("archive")) ELSE UNCHANGED <<pc, outcome>>
    /\ UNCHANGED <<op, order, cursor, limit, params, constraints, isUnfeasible,
                   filter, roleIdx, pending, tsSeq, search, calls, txArgs>>

\* fetchLedgers answers and fetchLedgersInfo builds its map.
LedgersReturned ==
    /\ op = "list" /\ fusion.ledgers = "pending"
    /\ fusion' = [fusion EXCEPT !.ledgers = "done",
                                !.ledgerMap = ledgersById(fetchLedgers(fusion.ledgerIds))]
    /\ UNCHANGED <<op, pc, order, cursor, limit, params, constraints, isUnfeasible,
                   filter, roleIdx, pending, tsSeq, search, calls, outcome, txArgs>>

LedgersFailed ==
    /\ op = "list" /\ fusion.ledgers = "pending"
    /\ fusion' = [fusion EXCEPT !.ledgers = "failed"]
    /\ IF pc = "fusion" THEN Throw(Failure("ledgers")) ELSE UNCHANGED <<pc, outcome>>
    /\ UNCHANGED <<op, order, cursor, limit, params, constraints, isUnfeasible,
                   filter, roleIdx, pending, tsSeq, search, calls, txArgs>>

\* Promise.all fulfils: fetchData merges and toArray wraps the records.
Merge ==
    /\ op = "list" /\ pc = "fusion"
    /\ fusion.archive = "done" /\ fusion.ledgers = "done"
    /\ pc' = "done"
    /\ outcome' = Paged(mergeEntries(fusion.transactions, fusion.ledgerMap))
    /\ UNCHANGED <<op, order, cursor, limit, params, constraints, isUnfeasible,
                   filter, roleIdx, pending, tsSeq, search, fusion, calls, txArgs>>

----------------------------------------------------------------------------
(* fetchTx *)

\* fetchSingleArchiveTransaction(network, txIdOrHash): the records the
\* archive holds under that identifier or hash (none, or one).
fetchSingleArchiveTransaction(txIdOrHash) ==
    {ArchiveRecord(id) : id \in {i \in ArchiveIds :
                                    ToString(i) = txIdOrHash \/ HashOf(i) = txIdOrHash}}

\* Mutation of idTooLong: one character more is let through.
idTooLongOffByOne(txIdOrHash) == Len(txIdOrHash) > MaxIdLength + 1

\* txIdOrHash.length > 64
idTooLong(txIdOrHash) == Len(txIdOrHash) > MaxIdLength

\* fetchTx, up to "await fetchSingleArchiveTransaction(..)"
FetchTx ==
    /\ op = "tx" /\ pc = "fetchTx"
    /\ IF idTooLong(txArgs.id)
       THEN UNCHANGED calls /\ Throw(ValidationError("id"))
       ELSE IF ~validateNetwork(txArgs.network)
       THEN UNCHANGED calls /\ Throw(ValidationError("network"))
       ELSE /\ calls' = Append(calls, "archiveOne")
            /\ pc' = "txWait" /\ UNCHANGED outcome
    /\ UNCHANGED <<op, order, cursor, limit, params, constraints, isUnfeasible,
                   filter, roleIdx, pending, tsSeq, search, fusion, txArgs>>

FetchTxArchiveFailed ==
    /\ op = "tx" /\ pc = "txWait"
    /\ Throw(Failure("archive"))
    /\ UNCHANGED <<op, order, cursor, limit, params, constraints, isUnfeasible,
                   filter, roleIdx, pending, tsSeq, search, fusion, calls, txArgs>>

\* fetchTx after the archive has answered.  For a transaction that is there,
\* fetchLedgers(network, [tx._id]) is called and its result, a promise that is
\* not awaited, is destructured as a list: the language raises a TypeError
\* (a promise is not iterable) and prepareResponseEntry is never reached.
FetchTxArchiveReturned ==
    /\ op = "tx" /\ pc = "txWait"
    /\ LET found == fetchSingleArchiveTransaction(txArgs.id)
       IN  IF found = {}
           THEN UNCHANGED <<fusion, calls>> /\ Throw(NotFound)
           ELSE LET tx == CHOOSE t \in found : TRUE
                IN  /\ calls' = Append(calls, "ledgers")
                    /\ fusion' = [fusion EXCEPT !.ledgers = "pending",
                                                !.ledgerIds = <<tx._id>>]
                    /\ Throw(Failure("TypeError"))
    /\ UNCHANGED <<op, order, cursor, limit, params, constraints, isUnfeasible,
                   filter, roleIdx, pending, tsSeq, search, txArgs>>

----------------------------------------------------------------------------

Next ==
    \/ NewTxQuery
    \/ ToArray
    \/ AddCursorFilter
    \/ AddTsFilter
    \/ \E which \in {"to", "from"} : TsResolved(which)
    \/ \E which \in {"to", "from"} : TsFailed(which)
    \/ AddTsFilterDone
    \/ AddIdRangeFilter
    \/ AddTypesFilter
    \/ AddAccountFilter
    \/ AccountsReturned
    \/ AccountsFailed
    \/ AddAssetFilter
    \/ AssetsReturned
    \/ AssetsFailed
    \/ AddOfferFilter
    \/ AddPoolFilter
    \/ PoolsReturned
    \/ PoolsFailed
    \/ AddMemoFilter
    \/ MemosReturned
    \/ MemosFailed
    \/ Search
    \/ SearchFailed
    \/ SearchReturned
    \/ ArchiveReturned
    \/ ArchiveFailed
    \/ LedgersReturned
    \/ LedgersFailed
    \/ Merge
    \/ FetchTx
    \/ FetchTxArchiveFailed
    \/ FetchTxArchiveReturned

Spec == Init /\ [][Next]_vars

----------------------------------------------------------------------------
(* Properties *)

\* The constructor rejected the request of the route tx.
NotConstructed ==
    op = "list" /\ outcome \in {ValidationError("network"), ValidationError("order")}

\* The positions of a list request before its cursor step has run.
BeforeCursorStep == {"new", "toArray", "cursor"}

ListDone == op = "list" /\ pc = "done"

Called(name) == \E i \in 1..Len(calls) : calls[i] = name

LastCall == IF Len(calls) = 0 THEN "" ELSE calls[Len(calls)]

\* The positions at which a lookup of a step is in flight.
LookupWaits == {"accountWait", "assetWait", "poolWait", "memoWait"}

\* The lookup `call` was issued and has not settled.
InFlight(call) == pc \in LookupWaits /\ LastCall = call

\* The lookup `call` on a collection was issued and answered with no match.
ResolvedEmpty(call, collection, param, values) ==
    /\ Has(param)
    /\ Called(call) /\ ~InFlight(call)
    /\ ~(outcome = Failure(collection) /\ LastCall = call)
    /\ Len(find(collection, values)) = 0

AccountResolvedEmpty(i) ==
    LET param == AccountRoles[i]
    IN  Has(param) /\ ResolvedEmpty("accounts:" \o param, "accounts", param, params[param])

AssetResolvedEmpty(i) ==
    LET param == AssetRoles[i]
    IN  Has(param) /\ ResolvedEmpty("assets:" \o param, "assets", param,
                                    assetNames(params[param]))

PoolResolvedEmpty ==
    Has("pool") /\ ResolvedEmpty("liquidity_pools", "liquidity_pools", "pool", params["pool"])

MemoResolvedEmpty ==
    Has("memo") /\ ResolvedEmpty("memos", "memos", "memo", params["memo"])

SomeResolvedEmpty ==
    \/ \E i \in 1..3 : AccountResolvedEmpty(i) \/ AssetResolvedEmpty(i)
    \/ PoolResolvedEmpty
    \/ MemoResolvedEmpty

\* Role j of a step ended the request: its values were rejected, or its
\* lookup failed.
RoleFailed(roles, collection, j) ==
    \/ outcome = ValidationError(roles[j])
    \/ outcome = Failure(collection) /\ LastCall = collection \o ":" \o roles[j]

\* C1, as stated: whenever a role of the account, asset, pool or memo filters
\* has been resolved to zero matches, the request ends with the empty paged
\* envelope, never with a failure, whatever the other filter parameters are
\* (requests in which a lookup itself failed are left aside).
C1_EmptyMatchAlwaysEmptyEnvelope ==
    (ListDone /\ SomeResolvedEmpty /\ outcome.kind # "error") => outcome = Paged(<<>>)

\* C1, amended: whenever a role of the account, asset, pool or memo filters
\* has been resolved to zero matches, the request ends with the empty paged
\* envelope unless a later role of the same account or asset step, which is
\* still processed, has its values rejected or its lookup fail; the
\* parameters of the later steps have no effect.
C1_EmptyMatchEndsEmptyOrLaterRoleFails ==
    ListDone =>
        /\ \A i \in 1..3 : AccountResolvedEmpty(i) =>
              \/ outcome = Paged(<<>>)
              \/ \E j \in (i + 1)..3 : RoleFailed(AccountRoles, "accounts", j)
        /\ \A i \in 1..3 : AssetResolvedEmpty(i) =>
              \/ outcome = Paged(<<>>)
              \/ \E j \in (i + 1)..3 : RoleFailed(AssetRoles, "assets", j)
        /\ (PoolResolvedEmpty \/ MemoResolvedEmpty) => outcome = Paged(<<>>)

\* An account role found no match, a malformed offer id was supplied too, and
\* the request has ended with the empty envelope.
C1_Witness ==
    /\ ListDone
    /\ \E i \in 1..3 : AccountResolvedEmpty(i)
    /\ Has("offer") /\ offersRejected(params["offer"])
    /\ outcome = Paged(<<>>)

\* C2: once the unsatisfiable flag is set it stays set, and in no state in
\* which it is set has the search index, the archive store or the
\* ledger-metadata store been called.
C2_UnfeasibleNeverSearches ==
    isUnfeasible =>
        /\ ~search.invoked
        /\ ~Called("search") /\ ~Called("archive") /\ ~Called("ledgers")
        /\ fusion = NoFusion
        /\ pc \in {"account", "accountWait", "asset", "assetWait", "done"}
        /\ pc = "done" => outcome.kind # "paged" \/ outcome = Paged(<<>>)

\* The flag was set by the pool step after lookups had been issued, and the
\* request has ended.
C2_Witness ==
    /\ ListDone /\ isUnfeasible
    /\ Called("liquidity_pools") /\ Called("timestamp:from")

\* The role i of the account step is supplied with 11 values.
ElevenAccounts(i) ==
    Has(AccountRoles[i]) /\ Len(params[AccountRoles[i]]) = MaxConditions + 1

\* C3, as stated: a request in which an account role is supplied with 11
\* values ends in a validation failure, and no lookup has been issued
\* (requests in which a lookup itself failed are left aside).
C3_ElevenAccountsFailBeforeAnyLookup ==
    (ListDone /\ outcome.kind # "error") =>
        \A i \in 1..3 : ElevenAccounts(i) => outcome.kind = "validation" /\ calls = <<>>

\* C3, amended: when an account role is supplied with 11 values, the only
\* lookups ever issued are the timestamp resolutions and the account lookups
\* of the earlier roles (never that role's lookup, a later resolver, the
\* search index, the archive or the ledger store); the request ends in the
\* validation failure of that role unless an earlier step or role has ended
\* it (a rejected network, order, cursor, type or earlier role, a failed timestamp or account
\* lookup, an unfeasible identifier range); and with no from, to or earlier
\* account role supplied it ends in a validation failure with no lookup.
C3_ElevenAccountsFailBeforeItsLookup ==
    ListDone =>
        \A i \in 1..3 : ElevenAccounts(i) =>
            /\ \A k \in 1..Len(calls) :
                  calls[k] \in {"timestamp:to", "timestamp:from"}
                                 \cup {"accounts:" \o AccountRoles[j] : j \in 1..(i - 1)}
            /\ \/ outcome = ValidationError(AccountRoles[i])
               \/ outcome \in {ValidationError("network"), ValidationError("order"),
                               ValidationError("cursor"), ValidationError("type"),
                               Failure("timestamp"), Failure("accounts")}
               \/ \E j \in 1..(i - 1) : outcome = ValidationError(AccountRoles[j])
               \/ outcome = Paged(<<>>) /\ constraintsIsUnfeasible(constraints)
            /\ (~Has("from") /\ ~Has("to") /\ \A j \in 1..(i - 1) : ~Has(AccountRoles[j]))
                  => outcome.kind = "validation" /\ calls = <<>>

\* The role source has 11 values and was rejected after a timestamp had been
\* resolved.
C3_Witness ==
    /\ ListDone
    /\ ElevenAccounts(2)
    /\ outcome = ValidationError("source")
    /\ calls = <<"timestamp:from">>

\* The range predicate of the request handed to the search index.
SearchRange ==
    IF Len(search.filter) > 0 /\ search.filter[1].kind = "range"
    THEN search.filter[1].range
    ELSE NoRange

\* The cursor parses to a non-negative integer.
CursorAccepted == cursor # <<>> /\ ToBigInt(cursor).ok /\ ToBigInt(cursor).val >= 0

\* C4, as stated: for a cursor that parses to c >= 0, the bottom bound of the
\* range used for the search is c + 1 when order is asc, and the top bound is
\* c - 1 when order is desc.
C4_CursorBoundIsEffective ==
    (op = "list" /\ search.invoked /\ CursorAccepted) =>
        LET c == ToBigInt(cursor).val
        IN  IF order = "asc"
            THEN SearchRange.hasGte /\ SearchRange.gte = c + 1
            ELSE SearchRange.hasLte /\ SearchRange.lte = c - 1

\* C4, amended: for a cursor that parses to c >= 0, the cursor step sets the
\* bottom bound to c + 1 when order is asc and the top bound to c - 1 when
\* order is desc; the bound used for the search is that value when no from
\* (asc) or to (desc) filter is supplied, and otherwise the tighter of it and
\* the bound of that filter.
C4_CursorBoundUnlessTimestampTighter ==
    (op = "list" /\ CursorAccepted) =>
        LET c == ToBigInt(cursor).val
        IN  /\ pc = "ts" =>
                  IF order = "asc"
                  THEN constraints = [NoConstraints EXCEPT !.hasBottom = TRUE, !.bottom = c + 1]
                  ELSE constraints = [NoConstraints EXCEPT !.hasTop = TRUE, !.top = c - 1]
            /\ search.invoked =>
                  IF order = "asc"
                  THEN /\ SearchRange.hasGte
                       /\ SearchRange.gte =
                             IF Has("from") THEN Max(c + 1, ShiftLeft(tsSeq["from"])) ELSE c + 1
                  ELSE /\ SearchRange.hasLte
                       /\ SearchRange.lte =
                             IF Has("to")
                             THEN Min(c - 1, ShiftLeft((tsSeq["to"] + 1) % Half))
                             ELSE c - 1

\* The search runs for cursor "1000" in ascending order with the range
\* {gte: 1001}.
C4_Witness ==
    /\ search.invoked
    /\ cursor = <<"1", "0", "0", "0">> /\ order = "asc"
    /\ SearchRange = [NoRange EXCEPT !.hasGte = TRUE, !.gte = 1001]

\* C5: for a query the constructor has accepted (recognized network, order
\* asc or desc), no lookup is issued before the cursor step; a cursor that does not
\* parse as an integer ends the request with a validation failure on field
\* cursor and no lookup at all, whatever else is supplied; a cursor that
\* parses to a negative integer raises no error and adds no bound (every bound
\* set comes from a timestamp resolution).
C5_CursorValidation ==
    (op = "list" /\ ~NotConstructed) =>
        /\ pc \in BeforeCursorStep => calls = <<>>
        /\ (cursor \in {<<"a", "b", "c">>, <<"1", ".", "5">>} /\ pc \notin BeforeCursorStep) =>
              pc = "done" /\ outcome = ValidationError("cursor") /\ calls = <<>>
        /\ cursor = <<"-", "5">> =>
              /\ outcome # ValidationError("cursor")
              /\ pc = "ts" => constraints = NoConstraints /\ outcome = Pending
              /\ constraints.hasBottom => "from" \in DOMAIN tsSeq
              /\ constraints.hasTop => "to" \in DOMAIN tsSeq

\* A request with cursor "abc" and an account filter has ended in the
\* validation failure of the cursor.
C5_Witness ==
    /\ ListDone
    /\ cursor = <<"a", "b", "c">> /\ Has("account") /\ Len(params["account"]) > 0
    /\ outcome = ValidationError("cursor")

\* The transaction fetchTx is asked for, when the archive holds it.
TxHeld == fetchSingleArchiveTransaction(txArgs.id) # {}

TxAsked == CHOOSE tx \in fetchSingleArchiveTransaction(txArgs.id) : TRUE

\* C6, as stated: fetchTx of an identifier or hash the archive holds returns
\* a response entry whose ledger and ts are those of the ledger-metadata
\* record keyed by the ledger sequence of the transaction, with no
\* paging_token.
C6_FetchTxReturnsEntry ==
    (op = "tx" /\ pc = "done" /\ validateNetwork(txArgs.network) /\ TxHeld
        /\ outcome # Failure("archive")) =>
        /\ outcome.kind = "entry"
        /\ Len(outcome.records) = 1
        /\ outcome.records[1].id = ToString(TxAsked.id)
        /\ outcome.records[1].ledger = High(TxAsked.id)
        /\ outcome.records[1].ts = LedgerRecord(High(TxAsked.id)).ts
        /\ ~outcome.records[1].hasPagingToken

\* C7: fetchTx with a string longer than 64 characters ends in a validation
\* failure and the archive is never queried; with a string of at most 64
\* characters, on a recognized network, that the archive answers it does not
\* hold, it ends in a not-found failure, and the ledger-metadata store is never
\* queried.
C7_FetchTxFailures ==
    op = "tx" =>
        /\ Len(txArgs.id) > 64 =>
              /\ calls = <<>>
              /\ pc = "done" => outcome = ValidationError("id")
        /\ (Len(txArgs.id) <= 64 /\ txArgs.network \in KnownNetworks /\ ~TxHeld) =>
              /\ ~Called("ledgers")
              /\ pc = "done" =>
                    /\ calls = <<"archiveOne">>
                    /\ outcome \in {NotFound, Failure("archive")}

\* fetchTx was asked for a string of 65 characters and has ended in the
\* validation failure.
C7_Witness ==
    /\ op = "tx" /\ pc = "done"
    /\ Len(txArgs.id) = 65
    /\ outcome = ValidationError("id")
    /\ calls = <<>>

\* The strings "0" .. "23"
NumericCodes == {ToString(n) : n \in 0..MaxOpType}

\* The codes a valid type value stands for.
CodesOf(value) ==
    IF Str(value) \in DOMAIN typeMapping
    THEN {typeMapping[Str(value)][k] : k \in 1..Len(typeMapping[Str(value)])}
    ELSE {n \in 0..MaxOpType : ToString(n) = Str(value)}

TypePredicates == SelectSeq(filter, LAMBDA f : f.kind = "terms" /\ f.field = "type")

\* C8, as stated: for a list of at most 30 type values the type step raises
\* a validation failure exactly when some value is neither a key of the
\* taxonomy table nor a numeric code in [0,23]; otherwise it emits one
\* set-membership predicate whose codes are exactly the de-duplicated union of
\* the codes the values stand for, each an integer in [0,23].
C8_TypesValidatedAndExpanded ==
    (op = "list" /\ Has("type") /\ Len(params["type"]) <= MaxTypeFilters) =>
        LET type     == params["type"]
            allValid == \A i \in 1..Len(type) :
                            Str(type[i]) \in DOMAIN typeMapping \cup NumericCodes
            expected == UNION {CodesOf(type[i]) : i \in 1..Len(type)}
        IN  /\ (pc = "done" /\ outcome = ValidationError("type")) => ~allValid
            /\ pc = "account" =>
                  /\ allValid
                  /\ Len(TypePredicates) = 1
                  /\ LET values == TypePredicates[1].values
                     IN  /\ {values[k] : k \in 1..Len(values)} = expected
                         /\ Cardinality(expected) = Len(values)
                         /\ \A k \in 1..Len(values) : values[k] \in 0..MaxOpType

\* The greatest and the least element of a non-empty set of integers.
Greatest(S) == CHOOSE x \in S : \A y \in S : x >= y

Least(S) == CHOOSE x \in S : \A y \in S : x <= y

\* The cursor step has run and contributed a bound.
CursorContributed == CursorAccepted /\ pc \notin BeforeCursorStep /\ ~NotConstructed

\* The bottoms and the tops contributed so far by the cursor step and by the
\* timestamp resolutions that have fulfilled.
ContributedBottoms ==
    (IF CursorContributed /\ order = "asc" THEN {ToBigInt(cursor).val + 1} ELSE {})
        \cup (IF "from" \in DOMAIN tsSeq THEN {ShiftLeft(tsSeq["from"])} ELSE {})

ContributedTops ==
    (IF CursorContributed /\ order = "desc" THEN {ToBigInt(cursor).val - 1} ELSE {})
        \cup (IF "to" \in DOMAIN tsSeq THEN {ShiftLeft((tsSeq["to"] + 1) % Half)} ELSE {})

\* C9: at every moment of a list request the bottom bound is the maximum of
\* the bottoms contributed so far and the top bound the minimum of the tops
\* contributed so far (a bound is set exactly when something contributed to
\* it), in whatever order the contributions arrive; the constraints are
\* unfeasible exactly when both bounds are set and bottom > top, and then the
\* identifier range step lets no later step run.
C9_BoundsOnlyTighten ==
    op = "list" =>
        /\ constraints.hasBottom = (ContributedBottoms # {})
        /\ constraints.hasTop = (ContributedTops # {})
        /\ constraints.hasBottom => constraints.bottom = Greatest(ContributedBottoms)
        /\ constraints.hasTop => constraints.top = Least(ContributedTops)
        /\ constraintsIsUnfeasible(constraints) =
              (/\ ContributedBottoms # {} /\ ContributedTops # {}
               /\ Greatest(ContributedBottoms) > Least(ContributedTops))
        /\ constraintsIsUnfeasible(constraints) =>
              pc \in {"tsWait", "idRange", "done"} /\ ~search.invoked

\* In ascending order the cursor "20" contributed the bottom 21, the
\* resolution of `from` then contributed a smaller bottom, and the bound is
\* still 21.
C9_Witness ==
    /\ op = "list" /\ pc = "idRange"
    /\ order = "asc" /\ cursor = <<"2", "0">>
    /\ "from" \in DOMAIN tsSeq /\ ShiftLeft(tsSeq["from"]) < 21
    /\ constraints.hasBottom /\ constraints.bottom = 21

\* C10: the entries of a non-empty list response are those of the archive
\* records returned for the hits, in their order; every entry's paging_token
\* is its id, the decimal string of the transaction identifier; its ledger and
\* ts are those of the ledger-metadata record keyed by the high half of the
\* identifier; and the batch asked of the ledger-metadata store is the
\* distinct set of the high halves of the hit identifiers.
C10_ListEntries ==
    (ListDone /\ outcome.kind = "paged" /\ Len(outcome.records) > 0) =>
        LET entries == outcome.records
            txs     == fusion.transactions
            hits    == search.hits
            batch   == fusion.ledgerIds
        IN  /\ Len(entries) = Len(txs) /\ Len(txs) = Len(hits)
            /\ \A i \in 1..Len(txs) : txs[i].id = hits[i]
            /\ \A i \in 1..Len(entries) :
                  /\ entries[i].id = ToString(txs[i].id)
                  /\ entries[i].hash = txs[i].hash
                  /\ entries[i].hasPagingToken
                  /\ entries[i].paging_token = entries[i].id
                  /\ entries[i].ledger = txs[i].id \div Half
                  /\ entries[i].ts = LedgerRecord(txs[i].id \div Half).ts
            /\ {batch[k] : k \in 1..Len(batch)} = {hits[i] \div Half : i \in 1..Len(hits)}
            /\ \A k, l \in 1..Len(batch) : batch[k] = batch[l] => k = l

\* A response of two entries of the same ledger: one ledger was asked for.
C10_Witness ==
    /\ ListDone /\ outcome.kind = "paged"
    /\ Len(outcome.records) = 2
    /\ outcome.records[1].ledger = outcome.records[2].ledger
    /\ Len(fusion.ledgerIds) = 1


\* The predicate a resolved role emits: one terms predicate over its matches.
RolePredicates(param, key, collection, values) ==
    IF roleSkipped(param) THEN <<>> ELSE <<Terms(key, find(collection, values))>>

\* The predicates each step emits for the request, computed from the
\* parameters and the range constraints.
IdRangePredicates ==
    IF constraintsIsEmpty(constraints) THEN <<>>
    ELSE <<Range(constraintsResolve(constraints))>>

TypeStepPredicates ==
    IF Has("type") THEN typesFilter(params["type"], <<>>).filters ELSE <<>>

AccountPredicates ==
    LET P(i) == IF Has(AccountRoles[i])
                THEN RolePredicates(AccountRoles[i], AccountKeys[i], "accounts",
                                    params[AccountRoles[i]])
                ELSE <<>>
    IN  P(1) \o P(2) \o P(3)

AssetPredicates ==
    LET P(i) == IF Has(AssetRoles[i])
                THEN RolePredicates(AssetRoles[i], AssetKeys[i], "assets",
                                    assetNames(params[AssetRoles[i]]))
                ELSE <<>>
    IN  P(1) \o P(2) \o P(3)

OfferPredicates ==
    IF Has("offer") /\ Len(params["offer"]) > 0
    THEN <<Terms("offer", offerIds(params["offer"]))>>
    ELSE <<>>

PoolPredicates ==
    IF Has("pool") THEN <<Terms("pool", find("liquidity_pools", params["pool"]))>> ELSE <<>>

MemoPredicates ==
    IF Has("memo") THEN RolePredicates("memo", "memo", "memos", params["memo"]) ELSE <<>>

NoFilterSupplied == cursor = <<>> /\ DOMAIN params = {}

\* C11: whenever the search index is invoked, the filter list of the request
\* is the sequence of the predicates of the steps in step order (id range,
\* type, account roles, asset roles, offer, pool, memo), no two of them over
\* the same index field; it is the empty list when no filter parameter and no
\* cursor is supplied; the page size and the total-hit cap are the limit and
\* the sort order is the requested order.
C11_SearchRequest ==
    (op = "list" /\ search.invoked) =>
        /\ search.filter = IdRangePredicates \o TypeStepPredicates \o AccountPredicates
                              \o AssetPredicates \o OfferPredicates \o PoolPredicates
                              \o MemoPredicates
        /\ \A i, j \in 1..Len(search.filter) :
              search.filter[i].field = search.filter[j].field => i = j
        /\ NoFilterSupplied => search.filter = <<>>
        /\ search.size = limit /\ search.trackTotalHits = limit
        /\ search.sortOrder = order

\* The search was invoked with the predicates of two account roles and an
\* offer, in that order, for a page of two.
C11_Witness ==
    /\ search.invoked /\ limit = 2
    /\ Len(search.filter) = 3
    /\ search.filter[1].field = "accounts"
    /\ search.filter[2].field = "source"
    /\ search.filter[3].field = "offer"

\* The place in the pipeline of the step that issues a call.
StepRank(call) ==
    CASE call \in {"timestamp:to", "timestamp:from"} -> 2
      [] call \in {"accounts:" \o AccountRoles[i] : i \in 1..3} -> 5
      [] call \in {"assets:" \o AssetRoles[i] : i \in 1..3} -> 6
      [] call = "liquidity_pools" -> 8
      [] call = "memos" -> 9
      [] call = "search" -> 10
      [] OTHER -> 11

\* The steps after the account step, and the fields they validate.
StepsAfterAccount ==
    {"asset", "assetWait", "offer", "pool", "poolWait", "memo", "memoWait", "search",
     "searchWait", "fusion"}

FieldsAfterAccount == {AssetRoles[i] : i \in 1..3} \cup {"offer", "pool", "memo"}

\* The steps run one after the other, and none runs once the flag is set:
\* the calls are issued in step order, no step after the timestamp step runs
\* while a resolution it started is in flight, the flag is only ever seen set
\* inside the loop of the step that set it or at the end of the request, and
\* once the account step has set it no later step has looked up or validated
\* anything.
StepsInOrder ==
    /\ \A k, l \in 1..Len(calls) : k < l => StepRank(calls[k]) <= StepRank(calls[l])
    /\ pc \notin {"new", "toArray", "cursor", "ts", "tsWait", "done"} => pending = {}
    /\ isUnfeasible =>
          pc = "done" \/ (pc \in {"account", "accountWait", "asset", "assetWait"} /\ roleIdx > 1)
    /\ (\E i \in 1..3 : AccountResolvedEmpty(i)) =>
          /\ pc \notin StepsAfterAccount
          /\ \A k \in 1..Len(calls) : StepRank(calls[k]) <= 5
          /\ ~(outcome.kind = "validation" /\ outcome.field \in FieldsAfterAccount)

\* The account step found no match for role i in a request that carries a
\* malformed offer id, and the request has ended.
FlagSetWithMalformedOffer(i) ==
    /\ ListDone
    /\ AccountResolvedEmpty(i)
    /\ Has("offer") /\ offersRejected(params["offer"])

\* C12, as stated: the steps run strictly in order, none after the flag is
\* set; and when the account step sets the flag in a request with a malformed
\* offer id, no validation failure is raised and the request yields the empty
\* result (requests in which a lookup itself failed are left aside).
C12_FlagYieldsEmptyResult ==
    op = "list" =>
        /\ StepsInOrder
        /\ \A i \in 1..3 : (FlagSetWithMalformedOffer(i) /\ outcome.kind # "error") =>
              outcome = Paged(<<>>)

\* C12, amended: the steps run strictly in order, none after the flag is
\* set; when the account step sets the flag, the asset, offer, pool and memo
\* steps issue no lookup and validate nothing, so a malformed offer id raises
\* no validation failure, and the request yields the empty result unless a
\* later role of the account step itself has its values rejected or its
\* lookup fail.
C12_FlagSkipsLaterSteps ==
    op = "list" =>
        /\ StepsInOrder
        /\ \A i \in 1..3 : FlagSetWithMalformedOffer(i) =>
              \/ outcome = Paged(<<>>)
              \/ \E j \in (i + 1)..3 : RoleFailed(AccountRoles, "accounts", j)

\* The role account found no match, the role source was then looked up, a
\* malformed offer id was supplied, and the request has ended with the empty
\* envelope after the two account lookups.
C12_Witness ==
    /\ FlagSetWithMalformedOffer(1)
    /\ calls = <<"accounts:account", "accounts:source">>
    /\ outcome = Paged(<<>>)

\* The two steps that loop over three roles.
RoleSteps == {"account", "asset"}

RolesOf(step) == IF step = "account" THEN AccountRoles ELSE AssetRoles

KeysOf(step) == IF step = "account" THEN AccountKeys ELSE AssetKeys

CollectionOf(step) == IF step = "account" THEN "accounts" ELSE "assets"

RoleCall(step, j) == CollectionOf(step) \o ":" \o RolesOf(step)[j]

RoleResolvedEmpty(step, i) ==
    IF step = "account" THEN AccountResolvedEmpty(i) ELSE AssetResolvedEmpty(i)

RoleRejected(step, j) ==
    IF step = "account"
    THEN accountsRejected(params[AccountRoles[j]])
    ELSE assetsRejected(params[AssetRoles[j]])

\* The loop of the step has gone past role j, or the request has ended.
RolePassed(step, j) == pc = "done" \/ (StepOf(pc) = step /\ roleIdx > j)

\* C13: in the account step and in the asset step, a role resolved to no
\* match sets the flag and emits no predicate over its field, and every
\* later role that has values is still processed, in the order of the roles:
\* unless a role in between ended the request, its values are validated (a
\* rejected list ends the request in that role's validation failure, with
\* no lookup for it) and, when they are valid, its lookup is issued.
C13_LaterRolesStillProcessed ==
    op = "list" =>
        \A step \in RoleSteps : \A i \in 1..3 :
            RoleResolvedEmpty(step, i) =>
                /\ isUnfeasible
                /\ \A k \in 1..Len(filter) : filter[k].field # KeysOf(step)[i]
                /\ \A j \in (i + 1)..3 :
                      (~roleSkipped(RolesOf(step)[j]) /\ RolePassed(step, j)) =>
                          \/ \E k \in (i + 1)..(j - 1) :
                                RoleFailed(RolesOf(step), CollectionOf(step), k)
                          \/ IF RoleRejected(step, j)
                             THEN /\ outcome = ValidationError(RolesOf(step)[j])
                                  /\ ~Called(RoleCall(step, j))
                             ELSE Called(RoleCall(step, j))
                /\ \A k, l \in 1..Len(calls) : \A a, b \in 1..3 :
                      (calls[k] = RoleCall(step, a) /\ calls[l] = RoleCall(step, b) /\ k < l)
                          => a < b

\* The role account found no match, the role source was looked up all the
\* same, and the malformed value of the role destination was rejected.
C13_Witness ==
    /\ ListDone
    /\ AccountResolvedEmpty(1)
    /\ calls = <<"accounts:account", "accounts:source">>
    /\ outcome = ValidationError("destination")

\* The positions of a list request after the identifier range step.
AfterIdRange ==
    {"types", "account", "accountWait", "asset", "assetWait", "offer", "pool", "poolWait",
     "memo", "memoWait", "search", "searchWait", "fusion"}

RangePredicates == SelectSeq(filter, LAMBDA f : f.kind = "range")

\* The request was ended by the cursor step or by the timestamp step.
EndedBeforeIdRange == outcome \in {ValidationError("cursor"), Failure("timestamp")}

\* What the identifier range step has left behind, in every state after it.
IdRangeStepDone ==
    /\ pc = "idRange" => filter = <<>> /\ ~isUnfeasible
    /\ pc \in AfterIdRange =>
          /\ ~constraintsIsUnfeasible(constraints)
          /\ IF constraintsIsEmpty(constraints)
             THEN RangePredicates = <<>>
             ELSE /\ RangePredicates = <<Range(constraintsResolve(constraints))>>
                  /\ filter[1] = RangePredicates[1]
                  /\ filter[1].range.hasGte = constraints.hasBottom
                  /\ filter[1].range.hasLte = constraints.hasTop
                  /\ constraints.hasBottom => filter[1].range.gte = constraints.bottom
                  /\ constraints.hasTop => filter[1].range.lte = constraints.top
    /\ (pc = "done" /\ constraintsIsUnfeasible(constraints) /\ ~EndedBeforeIdRange) =>
          isUnfeasible /\ filter = <<>> /\ outcome = Paged(<<>>) /\ ~search.invoked
    /\ search.invoked =>
          /\ ~constraintsIsUnfeasible(constraints)
          /\ constraintsIsEmpty(constraints) =>
                \A k \in 1..Len(search.filter) : search.filter[k].kind # "range"

\* C14: the identifier range step adds no predicate and leaves the flag
\* alone when the constraints hold no bound, sets the flag and adds no
\* predicate when they are unfeasible, and otherwise adds exactly one range
\* predicate over id with the bounds that are set; no step after it changes
\* the constraints, and whenever the search index is invoked they are
\* feasible.
C14_IdRangeStep ==
    /\ [](op = "list" => IdRangeStepDone)
    /\ [][(op = "list" /\ pc \in AfterIdRange) => constraints' = constraints]_vars

\* The cursor and the resolution of `to` left the bottom above the top: the
\* identifier range step set the flag and the request ended with the empty
\* envelope, no predicate added.
C14_Witness ==
    /\ ListDone
    /\ cursor # <<>> /\ Called("timestamp:to")
    /\ constraintsIsUnfeasible(constraints)
    /\ isUnfeasible /\ filter = <<>> /\ outcome = Paged(<<>>)

\* C15, as stated: for every sequence s of the 32-bit range that the
\* timestamp resolver returns, a `to` filter adds the top bound (s + 1) << 32
\* computed without wrap-around and a `from` filter the bottom bound s << 32
\* (read off the constraints where the cursor contributed nothing to the same
\* bound).
C15_TimestampBoundsDoNotWrap ==
    op = "list" =>
        /\ ("to" \in DOMAIN tsSeq /\ ~(CursorContributed /\ order = "desc")) =>
              /\ tsSeq["to"] \in 0..(Half - 1)
              /\ constraints.hasTop
              /\ constraints.top = (tsSeq["to"] + 1) * Half
        /\ ("from" \in DOMAIN tsSeq /\ ~(CursorContributed /\ order = "asc")) =>
              /\ tsSeq["from"] \in 0..(Half - 1)
              /\ constraints.hasBottom
              /\ constraints.bottom = tsSeq["from"] * Half

BothTimestamps == Has("from") /\ Has("to")

\* The sequence the resolver returns for the timestamp of a parameter.
SequenceOf(which) == resolveSequenceFromTimestamp(ParseInt(params[which]).val)

\* The bounds the request must end up with when both resolutions fulfil,
\* computed from the request alone.
FinalBottoms ==
    {ShiftLeft(SequenceOf("from"))}
        \cup (IF CursorAccepted /\ order = "asc" THEN {ToBigInt(cursor).val + 1} ELSE {})

FinalTops ==
    {ShiftLeft((SequenceOf("to") + 1) % Half)}
        \cup (IF CursorAccepted /\ order = "desc" THEN {ToBigInt(cursor).val - 1} ELSE {})

\* The timestamp step of a request with both from and to, in each state.
BothResolutions ==
    /\ (Called("timestamp:to") \/ Called("timestamp:from")) =>
          Called("timestamp:to") /\ Called("timestamp:from")
    /\ pc \in {"new", "toArray", "cursor", "ts"} => pending = {} /\ tsSeq = <<>>
    /\ pc \in {"idRange"} \cup AfterIdRange =>
          pending = {} /\ DOMAIN tsSeq = {"from", "to"}
    /\ DOMAIN tsSeq = {"from", "to"} =>
          /\ constraints.hasBottom /\ constraints.bottom = Greatest(FinalBottoms)
          /\ constraints.hasTop /\ constraints.top = Least(FinalTops)

\* C16: with both from and to, the two resolutions are started together,
\* before either completes; the identifier range step does not run until
\* both have completed; and once both have, the bottom and the top bound
\* are the same whatever the order of the two completions, the bound of the
\* cursor step included.
C16_ResolutionsCommute ==
    /\ []((op = "list" /\ BothTimestamps) => BothResolutions)
    /\ [][(op = "list" /\ BothTimestamps /\ pc = "ts") =>
              pending' = {"from", "to"} /\ tsSeq' = <<>> /\ pc' = "tsWait"]_vars

\* `from` was started second and has completed first, on top of the bound of
\* the cursor; `to` is still in flight.
C16_Witness ==
    /\ op = "list" /\ pc = "tsWait"
    /\ CursorAccepted /\ BothTimestamps
    /\ calls = <<"timestamp:to", "timestamp:from">>
    /\ pending = {"to"} /\ DOMAIN tsSeq = {"from"}

\* The place in the pipeline of what a failure comes from.
FailureRank(source) ==
    CASE source = "timestamp" -> 2
      [] source = "accounts" -> 5
      [] source = "assets" -> 6
      [] source = "liquidity_pools" -> 8
      [] source = "memos" -> 9
      [] source = "search" -> 10
      [] OTHER -> 11

FusionFailures ==
    (IF fusion.archive = "failed" THEN {Failure("archive")} ELSE {})
        \cup (IF fusion.ledgers = "failed" THEN {Failure("ledgers")} ELSE {})

\* A list request in each state: no lookup is issued twice; a request that
\* failed in a resolver or in the search carries no record and issued no call
\* after the one that failed; a failed fetch of the fusion has failed the
\* request at once, with the failure of a failed fetch and no entry.
FailFast ==
    /\ \A k, l \in 1..Len(calls) : calls[k] = calls[l] => k = l
    /\ (pc = "done" /\ outcome.kind = "error") =>
          /\ outcome.records = <<>>
          /\ calls # <<>>
          /\ StepRank(LastCall) = FailureRank(outcome.field)
          /\ FailureRank(outcome.field) < 10 => ~search.invoked /\ fusion = NoFusion
          /\ outcome = Failure("search") => search.hits = <<>> /\ fusion = NoFusion
          /\ outcome = Failure("timestamp") => filter = <<>>
    /\ FusionFailures # {} => pc = "done" /\ outcome \in FusionFailures

\* C17: every lookup of a list request is issued at most once; when a
\* resolver or the search index fails the request fails and nothing is
\* started after it; when a fetch of the fusion fails the request fails with
\* a failure of the fusion and without entries, whatever the other fetch
\* does; and a request that has ended starts no call and changes no outcome.
C17_FailFast ==
    /\ [](op = "list" => FailFast)
    /\ [][(op = "list" /\ pc = "done") =>
              pc' = "done" /\ outcome' = outcome /\ calls' = calls
                  /\ search' = search /\ filter' = filter]_vars

\* The archive has returned its records, the ledger-metadata fetch has
\* failed, and the request has failed with no entry.
C17_Witness ==
    /\ ListDone
    /\ fusion.archive = "done" /\ Len(fusion.transactions) > 0
    /\ fusion.ledgers = "failed"
    /\ outcome = Failure("ledgers")

\* The identifiers: two halves of HalfBits bits each.
IdSpace == 0..(Half * Half - 1)

\* Whether a range descriptor admits an identifier.
Admits(range, id) ==
    /\ range.hasGte => id >= range.gte
    /\ range.hasLte => id <= range.lte

\* The cursor contributed a top bound below that of the `to` filter.
CursorTopTighter ==
    /\ CursorAccepted /\ order = "desc"
    /\ ToBigInt(cursor).val - 1 < ShiftLeft((tsSeq["to"] + 1) % Half)

\* C18, as stated: with `to` resolved to the sequence s and no tighter top
\* bound from a cursor, the emitted range predicate admits no identifier
\* whose ledger sequence is greater than s; with `from` resolved to s it
\* admits no identifier whose ledger sequence is less than s.
C18_IntervalIsHalfOpen ==
    (op = "list" /\ RangePredicates # <<>>) =>
        LET range == RangePredicates[1].range
        IN  /\ ("to" \in DOMAIN tsSeq /\ ~CursorTopTighter) =>
                  \A id \in IdSpace : Admits(range, id) => High(id) <= tsSeq["to"]
            /\ "from" \in DOMAIN tsSeq =>
                  \A id \in IdSpace : Admits(range, id) => High(id) >= tsSeq["from"]

\* C18, amended: with `to` resolved to s, the emitted range predicate is
\* {lte: (s + 1) << 32}, inclusive: the only identifier of a ledger greater
\* than s that it admits is (s + 1) << 32 itself, the first of ledger s + 1;
\* with `from` resolved to s it admits no identifier whose ledger sequence is
\* less than s.
C18_IntervalClosedAtNextLedger ==
    (op = "list" /\ RangePredicates # <<>>) =>
        LET range == RangePredicates[1].range
        IN  /\ "to" \in DOMAIN tsSeq =>
                  /\ range.hasLte
                  /\ ~CursorTopTighter => range.lte = ShiftLeft((tsSeq["to"] + 1) % Half)
                  /\ \A id \in IdSpace : Admits(range, id) =>
                        High(id) <= tsSeq["to"] \/ id = ShiftLeft(tsSeq["to"] + 1)
            /\ "from" \in DOMAIN tsSeq =>
                  /\ range.hasGte
                  /\ \A id \in IdSpace : Admits(range, id) => High(id) >= tsSeq["from"]

\* The search runs with the predicate {lte: 2 << 32} of a `to` filter
\* resolved to ledger 1: the first identifier of ledger 2 is admitted.
C18_Witness ==
    /\ search.invoked /\ cursor = <<>>
    /\ "to" \in DOMAIN tsSeq /\ tsSeq["to"] = 1
    /\ SearchRange = [NoRange EXCEPT !.hasLte = TRUE, !.lte = ShiftLeft(2)]
    /\ Admits(SearchRange, ShiftLeft(2)) /\ High(ShiftLeft(2)) = 2

\* The filter parameters that take a list of values, with the lookup each
\* issues ("" for the offer step, which issues none) and the index field of
\* its predicate.
ListParams ==
    {[param |-> AccountRoles[i], call |-> "accounts:" \o AccountRoles[i],
      field |-> AccountKeys[i]] : i \in 1..3}
      \cup {[param |-> AssetRoles[i], call |-> "assets:" \o AssetRoles[i],
              field |-> AssetKeys[i]] : i \in 1..3}
      \cup {[param |-> "offer", call |-> "", field |-> "offer"],
             [param |-> "pool", call |-> "liquidity_pools", field |-> "pool"],
             [param |-> "memo", call |-> "memos", field |-> "memo"]}

SuppliedEmpty(param) == Has(param) /\ Len(params[param]) = 0

\* A parameter supplied with values was resolved to no match.
NonEmptyResolvedEmpty ==
    \/ \E i \in 1..3 : AccountResolvedEmpty(i) \/ AssetResolvedEmpty(i)
    \/ PoolResolvedEmpty /\ Len(params["pool"]) > 0
    \/ MemoResolvedEmpty

\* An empty list supplied for the parameter has had no effect so far.
EmptyListIgnored(p) ==
    /\ ~Called(p.call)
    /\ \A k \in 1..Len(filter) : filter[k].field # p.field
    /\ isUnfeasible => constraintsIsUnfeasible(constraints) \/ NonEmptyResolvedEmpty

\* C19, as stated: an account, asset, offer, pool or memo parameter supplied
\* with an empty list behaves as if it were absent: its step issues no
\* lookup, adds no predicate and does not set the flag.
C19_EmptyListIsAbsent ==
    op = "list" => \A p \in ListParams : SuppliedEmpty(p.param) => EmptyListIgnored(p)

\* The same for every list parameter but pool.
EmptyListIsAbsentExceptPool ==
    op = "list" =>
        \A p \in ListParams :
            (SuppliedEmpty(p.param) /\ p.param # "pool" /\ ~SuppliedEmpty("pool")) =>
                EmptyListIgnored(p)

\* C20, as stated: every bound of the range predicate that reaches the
\* search index lies inside the identifier space, for every accepted cursor
\* and every sequence the timestamp resolver returns, and a range that admits
\* no identifier of that space is never sent to the search index.
C20_BoundsInsideIdSpace ==
    (op = "list" /\ search.invoked) =>
        /\ SearchRange.hasGte => SearchRange.gte \in IdSpace
        /\ SearchRange.hasLte => SearchRange.lte \in IdSpace
        /\ \E id \in IdSpace : Admits(SearchRange, id)

====
